---- MODULE Spec2Model ----
(***************************************************************************)
(* Model of falba's command line (src/src/falba/cli.py): the A/B           *)
(* comparison `compare` over the in-memory result database, and the        *)
(* content-addressed `import_result` over the database root directory.     *)
(***************************************************************************)
EXTENDS Integers, Sequences, FiniteSets, TLC

VARIABLES db, out, fs, hist, procs

vars == <<db, out, fs, hist, procs>>

(***************************************************************************)
(* Bounds of the model.                                                    *)
(***************************************************************************)
\* Largest number of results in the database read at start-up.
MaxResults == 3

\* Largest number of import invocations run one after the other.
MaxImports == 3

(***************************************************************************)
(* Data: facts, metrics, results.                                          *)
(***************************************************************************)
\* Python's None, which compare() puts in `vals` for a result lacking a fact
\* (cli.py line 51). It differs from every fact value of the model.
None == "<None>"

\* A fact name no result of the model carries.
UnknownName == "arch"

ArgNames == {"os", "variant", "cpu", UnknownName}

MetricNames == {"latency", "tput"}

\* The results the database is drawn from. facts: name -> value, a name
\* outside the DOMAIN being a fact the result lacks. metrics: the metric rows
\* <<metric name, value>> of the result, in storage order.
ResultPool ==
    { [facts   |-> ("os" :> "linux") @@ ("variant" :> "A"),
       metrics |-> << <<"latency", 10>> >>],
      [facts   |-> ("os" :> "linux") @@ ("variant" :> "B"),
       metrics |-> << <<"latency", 20>>, <<"tput", 5>> >>],
      [facts   |-> ("os" :> "windows") @@ ("variant" :> "A"),
       metrics |-> << <<"latency", 15>> >>],
      [facts   |-> ("os" :> "linux") @@ ("variant" :> "A") @@ ("cpu" :> "x"),
       metrics |-> << <<"latency", 20>> >>],
      [facts   |-> ("variant" :> "B"),
       metrics |-> << <<"latency", 10>> >>],
      [facts   |-> ("os" :> "linux"),
       metrics |-> << <<"tput", 5>> >>],
      [facts   |-> ("os" :> "linux") @@ ("variant" :> "B"),
       metrics |-> << >>] }

\* The values --fact-eq can pin each name to (argv strings).
ArgValues(name) ==
    CASE name = "os"      -> {"linux", "windows"}
      [] name = "variant" -> {"A", "B"}
      [] OTHER            -> {"x"}

\* The dicts the --fact-eq options build (cmd_ab, cli.py line 154), for up to
\* two options.
FactsEqArgs ==
    UNION { { fe \in [S -> UNION {ArgValues(n) : n \in S}] :
                \A n \in S : fe[n] \in ArgValues(n) } :
            S \in { T \in SUBSET ArgNames : Cardinality(T) <= 2 } }

\* Every database read_db can hand to the command: result_id -> Result, in
\* dict order; the result_id of the i-th result is i.
Databases ==
    UNION { { [i \in 1..n |-> [result_id |-> i,
                               facts     |-> r[i].facts,
                               metrics   |-> r[i].metrics]] :
                r \in [1..n -> ResultPool] } :
            n \in 0..MaxResults }

(***************************************************************************)
(* compare(): cli.py lines 14-81.                                          *)
(***************************************************************************)
\* extant_facts: the union of the fact names of every result of the database.
ExtantFacts(d) == UNION { DOMAIN d[i].facts : i \in DOMAIN d }

\* MissingFacts with the keys checked against every result: a key counts as
\* missing as soon as one result lacks it.
MissingFactsAnyResult(facts_eq, d) ==
    { name \in DOMAIN facts_eq : \E i \in DOMAIN d : name \notin DOMAIN d[i].facts }

\* missing_facts: the facts_eq keys no result carries.
MissingFacts(facts_eq, d) == DOMAIN facts_eq \ ExtantFacts(d)

\* IncludeResult with a result that lacks a constrained fact left out.
IncludeResultStrict(result, facts_eq) ==
    ~ \E name \in DOMAIN facts_eq :
          name \notin DOMAIN result.facts \/ result.facts[name] # facts_eq[name]

\* include_result: False at the first constrained fact the result carries
\* with another value, True otherwise.
IncludeResult(result, facts_eq) ==
    ~ \E name \in DOMAIN facts_eq :
          name \in DOMAIN result.facts /\ result.facts[name] # facts_eq[name]

\* results = [r for r in db.results.values() if include_result(r)]
FilterResults(d, facts_eq) ==
    SelectSeq(d, LAMBDA r : IncludeResult(r, facts_eq))

\* FactVals without the None of the results lacking the fact.
FactValsSkipAbsent(fact, results) ==
    { results[i].facts[fact] :
        i \in { j \in DOMAIN results : fact \in DOMAIN results[j].facts } }

\* vals: the values of `fact` over `results`, None for a result lacking it.
FactVals(fact, results) ==
    { IF fact \in DOMAIN results[i].facts THEN results[i].facts[fact] ELSE None :
        i \in DOMAIN results }

\* Confounded with the test len(vals) > 2 in place of len(vals) != 1.
ConfoundedMoreThanTwo(d, facts_eq, experiment_fact, results) ==
    { fact \in UNION { DOMAIN d[i].facts : i \in DOMAIN d }
                 \ ({experiment_fact} \cup DOMAIN facts_eq) :
        Cardinality({ IF fact \in DOMAIN results[i].facts
                      THEN results[i].facts[fact] ELSE None :
                        i \in DOMAIN results }) > 2 }

\* The facts on which the loop of lines 43-56 raises: extant, neither the
\* experiment fact nor pinned, and len(vals) != 1.
Confounded(d, facts_eq, experiment_fact, results) ==
    { fact \in ExtantFacts(d) \ ({experiment_fact} \cup DOMAIN facts_eq) :
        Cardinality(FactVals(fact, results)) # 1 }

\* Concatenation of the rows of results i..Len(d) of the flat table.
RECURSIVE FlatFrom(_, _)
FlatFrom(d, i) ==
    IF i > Len(d) THEN << >>
    ELSE [k \in 1..Len(d[i].metrics) |->
             [result_id |-> d[i].result_id,
              facts     |-> d[i].facts,
              metric    |-> d[i].metrics[k][1],
              value     |-> d[i].metrics[k][2]]] \o FlatFrom(d, i + 1)

\* db.flat_df(): one row per (result, metric row), carrying the result's
\* facts as columns.
FlatDf(d) == FlatFrom(d, 1)

\* The columns of the flat table that hold facts.
FactColumns(d) == ExtantFacts(d)

\* ResultsDf without the is_in filter: every row of the flat table.
ResultsDfAll(rows, results) == rows

\* results_df: the rows whose result_id is the id of a filtered result.
ResultsDf(rows, results) ==
    SelectSeq(rows, LAMBDA row :
        row.result_id \in { results[i].result_id : i \in DOMAIN results })

\* df: the rows of results_df for the requested metric.
MetricDf(rows, metric) == SelectSeq(rows, LAMBDA row : row.metric = metric)

\* avail_metrics: the distinct metric names of results_df.
AvailMetrics(rows) == { rows[i].metric : i \in DOMAIN rows }

\* The value of column `experiment_fact` in a row: null where the result
\* lacks the fact.
GroupKey(row, experiment_fact) ==
    IF experiment_fact \in DOMAIN row.facts THEN row.facts[experiment_fact]
    ELSE None

RECURSIVE SumSeq(_)
SumSeq(s) == IF s = << >> THEN 0 ELSE Head(s) + SumSeq(Tail(s))

RECURSIVE Gcd(_, _)
Gcd(a, b) == IF b = 0 THEN a ELSE Gcd(b, a % b)

\* The rational num/den in lowest terms, den > 0, num >= 0.
Ratio(num, den) ==
    LET g == Gcd(num, den) IN [num |-> num \div g, den |-> den \div g]

\* pl.col("value").mean() over the values of a group.
Mean(values) == Ratio(SumSeq(values), Len(values))

\* The null a column holds where no number is defined.
NullRatio == [num |-> 0, den |-> 0]

\* pl.col("value").std(): the sample standard deviation, given here by its
\* square (n*sum(x^2) - sum(x)^2) / (n*(n-1)); null for fewer than 2 samples.
Std2(values) ==
    LET n  == Len(values)
        s  == SumSeq(values)
        s2 == SumSeq([k \in 1..n |-> values[k] * values[k]])
    IN  IF n < 2 THEN NullRatio ELSE Ratio(n * s2 - s * s, n * (n - 1))

\* The rows of `rows` whose experiment-fact column holds `key`.
GroupRows(rows, experiment_fact, key) ==
    SelectSeq(rows, LAMBDA row : GroupKey(row, experiment_fact) = key)

\* group_by(experiment_fact).agg(len, mean, std): one row per key, in no
\* particular order.
Aggregate(rows, experiment_fact) ==
    { LET g == GroupRows(rows, experiment_fact, key)
          v == [k \in 1..Len(g) |-> g[k].value]
      IN  [key |-> key, samples |-> Len(g), mean |-> Mean(v), std2 |-> Std2(v)] :
        key \in { GroupKey(rows[i], experiment_fact) : i \in DOMAIN rows } }

\* What one invocation leaves behind: how it ended, the steps it ran, its
\* arguments, and the content of its error message or printed table.
NoOutcome ==
    [status |-> "init", steps |-> << >>,
     facts_eq |-> << >>, experiment_fact |-> None, metric |-> None,
     missing |-> {}, available |-> {}, results |-> << >>,
     fact |-> None, vals |-> {}, avail_metrics |-> {}, table |-> {}]

\* compare(db, facts_eq, experiment_fact, metric), run once per process.
Compare(facts_eq, experiment_fact, metric) ==
    LET extant     == ExtantFacts(db)
        missing    == MissingFacts(facts_eq, db)
        results    == FilterResults(db, facts_eq)
        bad        == Confounded(db, facts_eq, experiment_fact, results)
        results_df == ResultsDf(FlatDf(db), results)
        df         == MetricDf(results_df, metric)
        call       == [NoOutcome EXCEPT !.facts_eq = facts_eq,
                                        !.experiment_fact = experiment_fact,
                                        !.metric = metric]
    IN
    /\ out.status = "init"
    /\ UNCHANGED <<db, fs, hist, procs>>
    /\ IF missing # {}
       THEN out' = [call EXCEPT !.status = "UnknownFact",
                                !.steps = <<"check_facts">>,
                                !.missing = missing,
                                !.available = extant]
       ELSE IF bad # {}
       THEN \E fact \in bad :
              out' = [call EXCEPT !.status = "Confounding",
                                  !.steps = <<"check_facts", "filter", "constancy">>,
                                  !.results = results,
                                  !.fact = fact,
                                  !.vals = FactVals(fact, results)]
       ELSE IF Len(results_df) = 0
       THEN out' = [call EXCEPT !.status = "EmptySelection",
                                !.steps = <<"check_facts", "filter", "constancy",
                                            "select">>,
                                !.results = results]
       ELSE IF Len(df) = 0
       THEN out' = [call EXCEPT !.status = "NoMetric",
                                !.steps = <<"check_facts", "filter", "constancy",
                                            "select", "metric">>,
                                !.results = results,
                                !.avail_metrics = AvailMetrics(results_df)]
       ELSE IF experiment_fact \notin FactColumns(db)
       THEN out' = [call EXCEPT !.status = "ColumnNotFound",
                                !.steps = <<"check_facts", "filter", "constancy",
                                            "select", "metric", "group_by">>,
                                !.results = results]
       ELSE out' = [call EXCEPT !.status = "ok",
                                !.steps = <<"check_facts", "filter", "constancy",
                                            "select", "metric", "group_by">>,
                                !.results = results,
                                !.table = Aggregate(df, experiment_fact)]

(***************************************************************************)
(* import_result(): cli.py lines 84-128.                                   *)
(***************************************************************************)
TestNames == {"bench", "perf"}

\* An input path naming a regular file with the given base name and content.
File(name, data) == [is_dir |-> FALSE, name |-> name, data |-> data, walk |-> << >>]

\* An input path naming a directory; walk lists its files in the order
\* input_path.walk() yields them, each <<path relative to the directory, content>>.
Dir(walk) == [is_dir |-> TRUE, name |-> "d", data |-> 0, walk |-> walk]

DirAB == Dir(<< << <<"a.txt">>, 1 >>, << <<"sub", "b.txt">>, 2 >> >>)

\* The artifact_paths arguments of the model.
ArtifactArgs ==
    { << DirAB >>,
      << File("a.txt", 1), File("c.txt", 2) >>,
      << File("sub", 3), DirAB >>,
      << DirAB, File("sub", 3) >>,
      << File("a.txt", 1), File("a.txt", 2) >>,
      << Dir(<< >>) >> }

\* The artifacts one input path yields: its content and its eventual path
\* relative to artifacts/.
PathArtifacts(input) ==
    IF input.is_dir
    THEN [k \in 1..Len(input.walk) |->
             [data |-> input.walk[k][2], relpath |-> input.walk[k][1]]]
    ELSE << [data |-> input.data, relpath |-> <<input.name>>] >>

\* iter_artifacts(): the artifacts of every input path, in argument order.
RECURSIVE IterArtifacts(_)
IterArtifacts(paths) ==
    IF paths = << >> THEN << >>
    ELSE PathArtifacts(Head(paths)) \o IterArtifacts(Tail(paths))

\* SHA-256 as an ideal hash: distinct inputs give distinct digests.
Sha256(bytes) == <<"sha256", bytes>>

\* The digest of the digests of the artifacts' contents, in iteration order;
\* neither the paths nor the test name enter it.
HashArtifacts(arts) ==
    Sha256([k \in 1..Len(arts) |-> Sha256(arts[k].data)])

\* result_dir, relative to the database root: f"{test_name}:{hexdigest[:12]}".
ResultDir(test_name, arts) ==
    [test_name |-> test_name, short_hash |-> <<"hex12", HashArtifacts(arts)>>]

\* A directory tree: path (a sequence of names, relative to the result
\* directory) -> node. The result directory itself is the empty tree.
DirNode == [kind |-> "dir", data |-> 0]

FileNode(data) == [kind |-> "file", data |-> data]

EmptyTree == << >>

IsDir(tree, path) == path = << >> \/ (path \in DOMAIN tree /\ tree[path].kind = "dir")

IsFile(tree, path) == path \in DOMAIN tree /\ tree[path].kind = "file"

\* The prefixes of `path` of length 1..n.
Prefixes(path, n) == { SubSeq(path, 1, k) : k \in 1..n }

\* One mkdir call of os.makedirs(path, exist_ok=True), which works from the
\* top down: it makes the shortest prefix of `path` that is missing, or
\* raises where a prefix exists as a regular file. done: no call is left
\* (with every prefix a directory, the last mkdir fails and is ignored).
MkdirOne(tree, path) ==
    LET todo  == { k \in 1..Len(path) :
                     \/ SubSeq(path, 1, k) \notin DOMAIN tree
                     \/ IsFile(tree, SubSeq(path, 1, k)) }
        first == CHOOSE k \in todo : \A j \in todo : k <= j
        made  == [p \in DOMAIN tree \cup {SubSeq(path, 1, first)} |->
                     IF p \in DOMAIN tree THEN tree[p] ELSE DirNode]
    IN  IF todo = {}
        THEN [err |-> "ok", tree |-> tree, done |-> TRUE]
        ELSE IF IsFile(tree, SubSeq(path, 1, first))
        THEN [err  |-> IF first = Len(path) THEN "FileExistsError"
                       ELSE "NotADirectoryError",
              tree |-> tree, done |-> TRUE]
        ELSE [err |-> "ok", tree |-> made, done |-> first = Len(path)]

\* os.makedirs(path, exist_ok=True): its mkdir calls one after the other.
RECURSIVE Makedirs(_, _)
Makedirs(tree, path) ==
    LET step == MkdirOne(tree, path)
    IN  IF step.done THEN [err |-> step.err, tree |-> step.tree]
        ELSE Makedirs(step.tree, path)

\* shutil.copy(src, dst) writes dst/basename(src) where dst is a directory.
CopyTarget(tree, dst, basename) ==
    IF IsDir(tree, dst) THEN Append(dst, basename) ELSE dst

\* A regular file just created or truncated: no content yet.
EmptyFile == [kind |-> "file", data |-> 0]

\* shutil.copyfile opening its target for writing: raises on a directory,
\* creates the file or empties the one that was there.
OpenForWrite(tree, target) ==
    IF IsDir(tree, target)
    THEN [err |-> "IsADirectoryError", tree |-> tree]
    ELSE [err  |-> "ok",
          tree |-> [p \in DOMAIN tree \cup {target} |->
                       IF p = target THEN EmptyFile ELSE tree[p]]]

\* shutil.copyfile writing the source's content into the opened target.
WriteData(tree, target, data) == [tree EXCEPT ![target] = FileNode(data)]

\* shutil.copy(src, dst) as a whole: open, write, copy the mode (the model
\* holds no modes).
ShutilCopy(tree, data, dst, basename) ==
    LET target == CopyTarget(tree, dst, basename)
        opened == OpenForWrite(tree, target)
    IN  IF opened.err # "ok" THEN opened
        ELSE [err |-> "ok", tree |-> WriteData(opened.tree, target, data)]

\* artifact_path of an artifact, relative to the result directory.
ArtifactPath(art) == <<"artifacts">> \o art.relpath

\* artifact_path.parent.
Parent(path) == SubSeq(path, 1, Len(path) - 1)

\* One turn of the copy loop (lines 120-126) for artifact `art`.
CopyArtifact(tree, art) ==
    LET made == Makedirs(tree, Parent(ArtifactPath(art)))
    IN  IF made.err # "ok" THEN made
        ELSE ShutilCopy(made.tree, art.data, ArtifactPath(art),
                        art.relpath[Len(art.relpath)])

\* The copy loop from artifact i on: stops at the first error.
RECURSIVE CopyFrom(_, _, _)
CopyFrom(tree, arts, i) ==
    IF i > Len(arts)
    THEN [err |-> "ok", tree |-> tree, num_copied |-> i - 1]
    ELSE LET step == CopyArtifact(tree, arts[i])
         IN  IF step.err # "ok"
             THEN [err |-> step.err, tree |-> step.tree, num_copied |-> i - 1]
             ELSE CopyFrom(step.tree, arts, i + 1)

\* OsMkdir as os.makedirs(result_dir, exist_ok=True): an existing directory
\* is accepted as it is.
OsMkdirExistOk(root, dir) ==
    [err  |-> "ok",
     root |-> [d \in DOMAIN root \cup {dir} |->
                  IF d \in DOMAIN root THEN root[d] ELSE << >>]]

\* OsMkdir that clears an existing directory before it reports the failure.
OsMkdirRecreate(root, dir) ==
    [err  |-> IF dir \in DOMAIN root THEN "FileExistsError" ELSE "ok",
     root |-> [d \in DOMAIN root \cup {dir} |->
                  IF d = dir THEN << >> ELSE root[d]]]

\* os.mkdir(result_dir) on the database root `root`: fails if the directory
\* exists, creates it empty otherwise, in one step of the file system.
OsMkdir(root, dir) ==
    IF dir \in DOMAIN root
    THEN [err |-> "FileExistsError", root |-> root]
    ELSE [err  |-> "ok",
          root |-> [d \in DOMAIN root \cup {dir} |->
                       IF d = dir THEN EmptyTree ELSE root[d]]]

\* The database root with the tree of `dir` replaced.
WithTree(root, dir, tree) == [root EXCEPT ![dir] = tree]

\* import_result as a whole on the database root `root`: what it raises
\* (and at which statement), the files copied, and the root it leaves.
ImportOutcome(root, test_name, paths) ==
    LET arts  == IterArtifacts(paths)
        dir   == ResultDir(test_name, arts)
        mk    == OsMkdir(root, dir)
        copy  == CopyFrom(mk.root[dir], arts, 1)
        entry == [test_name |-> test_name, paths |-> paths, dir |-> dir]
    IN  IF mk.err # "ok"
        THEN [entry |-> entry @@ [status |-> mk.err, at |-> "mkdir", num_copied |-> 0],
              root  |-> mk.root]
        ELSE [entry |-> entry @@ [status     |-> copy.err,
                                  at         |-> IF copy.err = "ok" THEN "end" ELSE "copy",
                                  num_copied |-> copy.num_copied],
              root  |-> WithTree(mk.root, dir, copy.tree)]

\* One invocation of `import <test_name> <file...>`.
Import(test_name, paths) ==
    LET res == ImportOutcome(fs, test_name, paths)
    IN  /\ Len(hist) < MaxImports
        /\ fs' = res.root
        /\ hist' = Append(hist, res.entry)
        /\ UNCHANGED <<db, out, procs>>

(***************************************************************************)
(* Two import processes on one database root. Each runs import_result      *)
(* statement by statement; a step is one call into the file system, and    *)
(* the other process may run between any two steps.                        *)
(***************************************************************************)
Procs == {1, 2}

\* A process about to run import_result(db, test_name, paths).
Started(test_name, paths) ==
    [test_name |-> test_name, paths |-> paths, pc |-> "hash",
     dir |-> None, i |-> 0, target |-> << >>, status |-> "running",
     at |-> None, num_copied |-> 0, touched |-> {}]

\* Where the copy loop goes with artifact i next: its body, or past it.
LoopPc(paths, i) == IF i > Len(IterArtifacts(paths)) THEN "log" ELSE "makedirs"

\* The artifact the process is copying.
CurrentArtifact(p) == IterArtifacts(procs[p].paths)[procs[p].i]

\* Lines 105-115: hash the artifacts and name the result directory.
HashStep(p) ==
    /\ procs[p].pc = "hash"
    /\ procs' = [procs EXCEPT ![p].pc = "mkdir",
                              ![p].dir = ResultDir(procs[p].test_name,
                                                   IterArtifacts(procs[p].paths))]
    /\ UNCHANGED <<db, out, fs, hist>>

\* Line 117: os.mkdir(result_dir).
MkdirStep(p) ==
    LET mk == OsMkdir(fs, procs[p].dir)
    IN  /\ procs[p].pc = "mkdir"
        /\ fs' = mk.root
        /\ procs' = IF mk.err # "ok"
                    THEN [procs EXCEPT ![p].pc = "failed", ![p].status = mk.err,
                                       ![p].at = "mkdir"]
                    ELSE [procs EXCEPT ![p].pc = LoopPc(procs[p].paths, 1),
                                       ![p].i = 1,
                                       ![p].touched = {procs[p].dir}]
        /\ UNCHANGED <<db, out, hist>>

\* Line 124: one mkdir call of os.makedirs(artifact_path.parent).
MakedirsStep(p) ==
    LET step == MkdirOne(fs[procs[p].dir], Parent(ArtifactPath(CurrentArtifact(p))))
    IN  /\ procs[p].pc = "makedirs"
        /\ fs' = WithTree(fs, procs[p].dir, step.tree)
        /\ procs' = IF step.err # "ok"
                    THEN [procs EXCEPT ![p].pc = "failed", ![p].status = step.err,
                                       ![p].at = "copy"]
                    ELSE [procs EXCEPT ![p].pc = IF step.done THEN "open"
                                                 ELSE "makedirs",
                                       ![p].touched = @ \cup {procs[p].dir}]
        /\ UNCHANGED <<db, out, hist>>

\* Line 125, shutil.copy: choose the target and open it for writing.
OpenStep(p) ==
    LET art    == CurrentArtifact(p)
        tree   == fs[procs[p].dir]
        target == CopyTarget(tree, ArtifactPath(art), art.relpath[Len(art.relpath)])
        opened == OpenForWrite(tree, target)
    IN  /\ procs[p].pc = "open"
        /\ fs' = WithTree(fs, procs[p].dir, opened.tree)
        /\ procs' = IF opened.err # "ok"
                    THEN [procs EXCEPT ![p].pc = "failed", ![p].status = opened.err,
                                       ![p].at = "copy"]
                    ELSE [procs EXCEPT ![p].pc = "write", ![p].target = target,
                                       ![p].touched = @ \cup {procs[p].dir}]
        /\ UNCHANGED <<db, out, hist>>

\* Line 125, shutil.copy: write the content.
WriteStep(p) ==
    /\ procs[p].pc = "write"
    /\ fs' = WithTree(fs, procs[p].dir,
                      WriteData(fs[procs[p].dir], procs[p].target,
                                CurrentArtifact(p).data))
    /\ procs' = [procs EXCEPT ![p].pc = "chmod"]
    /\ UNCHANGED <<db, out, hist>>

\* Lines 125-126: shutil.copy copies the mode and returns; num_copied += 1.
ChmodStep(p) ==
    /\ procs[p].pc = "chmod"
    /\ procs' = [procs EXCEPT ![p].pc = LoopPc(procs[p].paths, procs[p].i + 1),
                              ![p].i = @ + 1,
                              ![p].num_copied = @ + 1]
    /\ UNCHANGED <<db, out, fs, hist>>

\* Line 128: the loop is over; log and return.
FinishStep(p) ==
    /\ procs[p].pc = "log"
    /\ procs' = [procs EXCEPT ![p].pc = "done", ![p].status = "ok", ![p].at = "end"]
    /\ UNCHANGED <<db, out, fs, hist>>

Init ==
    /\ db \in Databases
    /\ out = NoOutcome
    /\ fs = << >>
    /\ hist = << >>
    /\ procs = << >>

Next ==
    \E facts_eq \in FactsEqArgs, experiment_fact \in ArgNames, metric \in MetricNames :
        Compare(facts_eq, experiment_fact, metric)

Spec == Init /\ [][Next]_vars

\* The import command run again and again on one initially empty database.
InitImport ==
    /\ db = << >>
    /\ out = NoOutcome
    /\ fs = << >>
    /\ hist = << >>
    /\ procs = << >>

NextImport ==
    \E test_name \in TestNames, paths \in ArtifactArgs : Import(test_name, paths)

SpecImport == InitImport /\ [][NextImport]_vars

\* Two import commands started on one initially empty database root.
InitConc ==
    /\ db = << >>
    /\ out = NoOutcome
    /\ fs = << >>
    /\ hist = << >>
    /\ procs \in [Procs -> { Started(t, a) : t \in TestNames, a \in ArtifactArgs }]

NextConc ==
    \E p \in Procs :
        \/ HashStep(p)
        \/ MkdirStep(p)
        \/ MakedirsStep(p)
        \/ OpenStep(p)
        \/ WriteStep(p)
        \/ ChmodStep(p)
        \/ FinishStep(p)

SpecConc == InitConc /\ [][NextConc]_vars

(***************************************************************************)
(* Vocabulary of the properties of compare, stated over the database and   *)
(* the arguments of the call rather than over the steps of the code.       *)
(***************************************************************************)
Ran == out.status # "init"

HasFact(r, name) == name \in DOMAIN r.facts

\* The fact names carried by at least one result of the whole database.
KnownFacts == { name \in ArgNames : \E i \in DOMAIN db : HasFact(db[i], name) }

\* The positions of the results that satisfy every --fact-eq constraint, a
\* result lacking the constrained fact satisfying it.
Selected ==
    { i \in DOMAIN db :
        \A name \in DOMAIN out.facts_eq :
            ~ HasFact(db[i], name) \/ db[i].facts[name] = out.facts_eq[name] }

ValueOn(i, name) == IF HasFact(db[i], name) THEN db[i].facts[name] ELSE None

\* The distinct values of a fact over the selected results, absence being
\* one value.
DistinctValues(name) == { ValueOn(i, name) : i \in Selected }

\* The known facts that are neither the experiment fact nor pinned.
Uncontrolled == KnownFacts \ ({out.experiment_fact} \cup DOMAIN out.facts_eq)

\* The flattened rows <<result position, metric row position>> of the selected
\* results for the requested metric.
MatchingRows ==
    UNION { { <<i, k>> : k \in { m \in DOMAIN db[i].metrics :
                                    db[i].metrics[m][1] = out.metric } } :
            i \in Selected }

ReachedAggregation == out.status \in {"ok", "ColumnNotFound"}

\* C1: compare reaches the aggregation step only if every fact of the whole
\* database other than the experiment fact and the pinned facts takes exactly
\* one distinct value over the filtered results, absence counting as a value.
C1_Soundness ==
    ReachedAggregation =>
        \A name \in Uncontrolled : Cardinality(DistinctValues(name)) = 1

\* A comparison that prints its table with two results selected on which an
\* uncontrolled fact of the database is uniformly absent.
C1_Witness ==
    /\ out.status = "ok"
    /\ Cardinality(Selected) >= 2
    /\ \E name \in Uncontrolled : DistinctValues(name) = {None}

\* C2: with only known facts pinned, if some uncontrolled fact takes two or
\* more distinct values over the filtered results (absence being a value),
\* compare fails with the confounding-fact error, which names such a fact
\* and the set of distinct values observed for it.
C2_ConfoundingReported ==
    ( /\ Ran
      /\ DOMAIN out.facts_eq \subseteq KnownFacts
      /\ \E name \in Uncontrolled : Cardinality(DistinctValues(name)) >= 2 )
    => /\ out.status = "Confounding"
       /\ out.fact \in Uncontrolled
       /\ Cardinality(DistinctValues(out.fact)) >= 2
       /\ out.vals = DistinctValues(out.fact)

\* The scenario R1, R2, R3: `compare variant latency` fails on os with the
\* values linux and windows.
C2_Witness ==
    /\ Len(db) = 3
    /\ out.status = "Confounding"
    /\ out.experiment_fact = "variant"
    /\ DOMAIN out.facts_eq = {}
    /\ out.fact = "os"
    /\ out.vals = {"linux", "windows"}

\* C3: with only known facts pinned and no result selected, compare fails
\* with the empty-selection error, never with the confounding-fact error
\* (stated for calls whose experiment fact is a known fact).
C3_EmptySelectionFirst ==
    ( /\ Ran
      /\ DOMAIN out.facts_eq \subseteq KnownFacts
      /\ out.experiment_fact \in KnownFacts
      /\ Selected = {} )
    => out.status = "EmptySelection"

\* C4: a facts_eq with a key no result of the database carries fails with the
\* unknown-fact error before anything else is done; the error lists exactly
\* the unknown keys and all the available fact names.
C4_UnknownFactReported ==
    ( Ran /\ DOMAIN out.facts_eq \ KnownFacts # {} )
    => /\ out.status = "UnknownFact"
       /\ out.missing = DOMAIN out.facts_eq \ KnownFacts
       /\ out.available = KnownFacts
       /\ out.steps = <<"check_facts">>
       /\ out.results = << >>
       /\ out.table = {}

\* An unknown-fact error for a call that pins one known and one unknown fact.
C4_Witness ==
    /\ out.status = "UnknownFact"
    /\ Cardinality(DOMAIN out.facts_eq) = 2
    /\ Cardinality(out.missing) = 1
    /\ out.available # {}

\* C5: an experiment fact no result of the database carries makes compare
\* fail with the unknown-fact error instead of passing validation and
\* reaching the grouping step (stated for calls with nothing else to reject:
\* known pinned facts, constant uncontrolled facts, rows for the metric).
C5_ExperimentFactChecked ==
    ( /\ Ran
      /\ out.experiment_fact \notin KnownFacts
      /\ DOMAIN out.facts_eq \subseteq KnownFacts
      /\ \A name \in Uncontrolled : Cardinality(DistinctValues(name)) = 1
      /\ MatchingRows # {} )
    => out.status = "UnknownFact" /\ ~ ReachedAggregation

\* The i of Selected with k - 1 smaller elements of Selected below it.
KthSelected(k) ==
    CHOOSE i \in Selected : Cardinality({ j \in Selected : j <= i }) = k

\* C8: the filtered list is the subsequence, in database order, of the
\* results that for each pinned fact either lack it or carry the required
\* value; with nothing pinned it is the whole list.
C8_FilterIsPermissiveSubsequence ==
    ( Ran /\ out.status # "UnknownFact" )
    => /\ Len(out.results) = Cardinality(Selected)
       /\ \A k \in 1..Len(out.results) : out.results[k] = db[KthSelected(k)]
       /\ \A i \in DOMAIN db :
             (\A name \in DOMAIN out.facts_eq : ~ HasFact(db[i], name))
             => \E k \in DOMAIN out.results : out.results[k] = db[i]
       /\ (DOMAIN out.facts_eq = {} => out.results = db)

\* A filter that keeps two results, one of them lacking the pinned fact, and
\* drops another.
C8_Witness ==
    /\ Ran
    /\ out.status # "UnknownFact"
    /\ Len(out.results) = 2
    /\ Len(db) = 3
    /\ \E k \in DOMAIN out.results, name \in DOMAIN out.facts_eq :
           ~ HasFact(out.results[k], name)

RowsOfGroup(key) ==
    { x \in MatchingRows : ValueOn(x[1], out.experiment_fact) = key }

RECURSIVE SumValues(_)
SumValues(rows) ==
    IF rows = {} THEN 0
    ELSE LET x == CHOOSE y \in rows : TRUE
         IN  db[x[1]].metrics[x[2]][2] + SumValues(rows \ {x})

\* C9: when the comparison passes validation and the requested metric has
\* rows, the table has exactly one row per distinct experiment-fact value
\* among the rows of the filtered results for that metric; each row counts
\* the rows of its group and averages their values only.  With a known
\* experiment fact such a comparison does print its table.
C9_AggregationPerGroup ==
    /\ out.status = "ok" =>
          /\ MatchingRows # {}
          /\ { row.key : row \in out.table }
               = { ValueOn(x[1], out.experiment_fact) : x \in MatchingRows }
          /\ \A r1, r2 \in out.table : r1.key = r2.key => r1 = r2
          /\ \A row \in out.table :
                /\ row.samples = Cardinality(RowsOfGroup(row.key))
                /\ row.mean.den > 0
                /\ row.mean.num * row.samples
                     = row.mean.den * SumValues(RowsOfGroup(row.key))
    /\ ( /\ Ran
         /\ DOMAIN out.facts_eq \subseteq KnownFacts
         /\ out.experiment_fact \in KnownFacts
         /\ \A name \in Uncontrolled : Cardinality(DistinctValues(name)) = 1
         /\ MatchingRows # {} )
       => out.status = "ok"

\* The scenario R1, R2, R3: `compare variant latency --fact-eq os linux`
\* yields the groups A (mean 10, n = 1) and B (mean 20, n = 1).
C9_Witness ==
    /\ Len(db) = 3
    /\ out.status = "ok"
    /\ out.experiment_fact = "variant"
    /\ out.metric = "latency"
    /\ out.facts_eq = ("os" :> "linux")
    /\ Len(out.results) = 2
    /\ { [key |-> row.key, samples |-> row.samples, mean |-> row.mean] :
           row \in out.table }
         = { [key |-> "A", samples |-> 1, mean |-> [num |-> 10, den |-> 1]],
             [key |-> "B", samples |-> 1, mean |-> [num |-> 20, den |-> 1]] }

(***************************************************************************)
(* Properties of import_result.                                            *)
(***************************************************************************)
\* No import before the j-th one named the directory of the j-th one.
FirstForDir(j) == \A k \in 1..(j - 1) : hist[k].dir # hist[j].dir

\* C6: of two imports of the same artifact set under the same test name the
\* first succeeds and the second fails with the already-exists error; an
\* import of the same artifacts under another test name succeeds and makes
\* a directory with another name.
C6_ImportTwice ==
    \A i, j \in DOMAIN hist :
        ( i < j /\ hist[i].paths = hist[j].paths /\ FirstForDir(i) )
        => IF hist[i].test_name = hist[j].test_name
           THEN /\ hist[i].status = "ok"
                /\ hist[j].status = "FileExistsError"
           ELSE FirstForDir(j) =>
                   /\ hist[j].status = "ok"
                   /\ hist[j].dir # hist[i].dir
                   /\ hist[j].dir \in DOMAIN fs

\* C7: an import whose directory name already exists fails at directory
\* creation and leaves the database root as it was.
C7_FailedImportLeavesDbUnchanged ==
    [][ ( Len(hist') = Len(hist) + 1 /\ hist'[Len(hist')].dir \in DOMAIN fs )
        => /\ hist'[Len(hist')].status = "FileExistsError"
           /\ hist'[Len(hist')].at = "mkdir"
           /\ hist'[Len(hist')].num_copied = 0
           /\ fs' = fs ]_vars

\* An import refused at directory creation whose artifacts differ from those
\* of the import that made the directory.
C7_Witness ==
    \E i, j \in DOMAIN hist :
        /\ i < j
        /\ hist[i].dir = hist[j].dir
        /\ hist[i].paths # hist[j].paths
        /\ hist[j].status = "FileExistsError"
        /\ hist[j].at = "mkdir"

\* The process has named its result directory.
Hashed(p) == procs[p].pc # "hash"

PassedMkdir(p) ==
    \/ procs[p].pc \in {"makedirs", "open", "write", "chmod", "log", "done"}
    \/ procs[p].pc = "failed" /\ procs[p].at = "copy"

\* C10: of two import processes that compute the same directory name at most
\* one passes directory creation and copies; the other fails there with the
\* already-exists error and writes nothing, so the two never write into the
\* same result directory.
C10_OneImporterPerDirectory ==
    \A p, q \in Procs :
        /\ procs[p].touched \cap procs[q].touched # {} => p = q
        /\ ( p # q /\ Hashed(p) /\ Hashed(q) /\ procs[p].dir = procs[q].dir )
           => /\ ~ (PassedMkdir(p) /\ PassedMkdir(q))
              /\ ( PassedMkdir(q) /\ procs[p].pc \notin {"hash", "mkdir"} )
                 => /\ procs[p].pc = "failed"
                    /\ procs[p].status = "FileExistsError"
                    /\ procs[p].at = "mkdir"
                    /\ procs[p].num_copied = 0
                    /\ procs[p].touched = {}

\* Two processes with one directory name: one in the middle of a copy, its
\* target opened and not yet written, the other refused at directory creation.
C10_Witness ==
    \E p, q \in Procs :
        /\ p # q
        /\ Hashed(p) /\ Hashed(q)
        /\ procs[p].dir = procs[q].dir
        /\ procs[q].pc = "write" /\ procs[q].num_copied >= 1
        /\ procs[p].pc = "failed" /\ procs[p].at = "mkdir"

====
